---- MODULE Spec2Model ----
(***************************************************************************)
(* fetchRandomDog of the TheDogAPI client, in its two variants:            *)
(*   "batch"  : src/unnamed/part_002 (limit=5, lenient normalizer,         *)
(*              enrichment by id, attribute-less fallback)                 *)
(*   "single" : src/src/api.js       (limit=1, strict normalizer)          *)
(* A JavaScript string is a sequence of one-character strings, so that     *)
(* trim, toLowerCase and split are computed and not assumed.               *)
(***************************************************************************)
EXTENDS Naturals, Sequences, FiniteSets, TLC

\* ------------------------------------------------------------------ bounds
MaxAttemptsBound == 2
MaxBatch == 2

\* ------------------------------------------------------------- JS strings
Null == "null"

LowerOf(c) ==
    CASE c = "A" -> "a"
      [] c = "B" -> "b"
      [] c = "F" -> "f"
      [] c = "G" -> "g"
      [] c = "L" -> "l"
      [] c = "N" -> "n"
      [] c = "T" -> "t"
      [] c = "D" -> "d"
      [] c = "P" -> "p"
      [] c = "I" -> "i"
      [] c = "U" -> "u"
      [] c = "J" -> "j"
      [] c = "S" -> "s"
      [] c = "O" -> "o"
      [] OTHER -> c

toLowerCase(s) == [i \in 1..Len(s) |-> LowerOf(s[i])]

RECURSIVE trimStart(_)
trimStart(s) == IF Len(s) > 0 /\ Head(s) = " " THEN trimStart(Tail(s)) ELSE s

RECURSIVE trimEnd(_)
trimEnd(s) ==
    IF Len(s) > 0 /\ s[Len(s)] = " " THEN trimEnd(SubSeq(s, 1, Len(s) - 1)) ELSE s

trim(s) == trimEnd(trimStart(s))

\* String.prototype.split(','): the empty string splits into one empty token
RECURSIVE split(_)
split(s) ==
    IF \A i \in 1..Len(s) : s[i] # ","
    THEN <<s>>
    ELSE LET k == CHOOSE i \in 1..Len(s) :
                      s[i] = "," /\ \A j \in 1..(i - 1) : s[j] # ","
         IN  <<SubSeq(s, 1, k - 1)>> \o split(SubSeq(s, k + 1, Len(s)))

\* a || b on strings: the empty string is falsy
OrElse(a, b) == IF a # <<>> THEN a ELSE b

\* ---------------------------------------------------------- source data
Keys == {"breed", "temperament", "life_span", "weight"}
ScalarKeys == {"breed", "life_span", "weight"}

\* breed objects of the source (breeds[0] of a raw item)
BreedA ==
    [id |-> "ba", name |-> <<"A", "b">>, temperament |-> <<"F", ",", " ", "g">>,
     life_span |-> <<"l">>, weight |-> [imperial |-> <<"w">>, metric |-> <<"m">>]]
BreedB ==
    [id |-> "bb", name |-> <<"b">>, temperament |-> <<"f", ",", ",", "B">>,
     life_span |-> <<>>, weight |-> [imperial |-> <<>>, metric |-> <<"m">>]]
BreedE ==
    [id |-> Null, name |-> <<>>, temperament |-> <<>>,
     life_span |-> <<>>, weight |-> [imperial |-> <<>>, metric |-> <<>>]]

Breeds == {BreedA, BreedB, BreedE}

NullItem == [isNull |-> TRUE]

Item1 == [id |-> "i1", url |-> "u1", breeds |-> <<BreedA>>]
Item2 == [id |-> "i2", url |-> "u2", breeds |-> <<BreedB>>]
Item3 == [id |-> "i3", url |-> "u3", breeds |-> <<>>]
Item4 == [id |-> "i4", url |-> Null, breeds |-> <<>>]
Item5 == [id |-> Null, url |-> "u5", breeds |-> <<BreedE, BreedA>>]

RawItems == {Item1, Item2, Item3, Item4, Item5, NullItem}


\* a || b on identifiers and urls: null is falsy
OrNull(a, b) == IF a # Null THEN a ELSE b

\* null, as the value of normalizeImageObj and of the fallback variable
NullRec == [isNull |-> TRUE]

\* res.json() of a response: an array of raw items, or something that is no array
ArrayOf(items) == [isArray |-> TRUE, items |-> items]
NotArray == [isArray |-> FALSE, items |-> <<>>]

\* ------------------------------------------------------------ Normalizer
AttributesOf(breedObj) ==
    [breed       |-> breedObj.name,
     temperament |-> breedObj.temperament,
     life_span   |-> breedObj.life_span,
     weight      |-> OrElse(breedObj.weight.imperial, breedObj.weight.metric)]

EmptyAttributes ==
    [breed |-> <<>>, temperament |-> <<>>, life_span |-> <<>>, weight |-> <<>>]

IdOf(imgObj) ==
    OrNull(imgObj.id, IF Len(imgObj.breeds) > 0 THEN imgObj.breeds[1].id ELSE Null)

\* lenient normalizer with hasBreed: !!imgObj.breeds (an empty list is truthy)
normalizeImageObjTruthyBreeds(imgObj) ==
    IF imgObj = NullItem THEN NullRec
    ELSE [id         |-> IdOf(imgObj),
          imageUrl   |-> imgObj.url,
          attributes |-> IF Len(imgObj.breeds) > 0
                         THEN AttributesOf(imgObj.breeds[1])
                         ELSE EmptyAttributes,
          hasBreed   |-> TRUE]

\* lenient normalizer of the batch variant
normalizeImageObj(imgObj) ==
    IF imgObj = NullItem THEN NullRec
    ELSE [id         |-> IdOf(imgObj),
          imageUrl   |-> imgObj.url,
          attributes |-> IF Len(imgObj.breeds) > 0
                         THEN AttributesOf(imgObj.breeds[1])
                         ELSE EmptyAttributes,
          hasBreed   |-> Len(imgObj.breeds) > 0]

\* strict normalizer of the single variant: no breed, no record
normalizeImageObjStrict(imgObj) ==
    IF imgObj = NullItem THEN NullRec
    ELSE IF Len(imgObj.breeds) = 0 THEN NullRec
    ELSE [id         |-> IdOf(imgObj),
          imageUrl   |-> imgObj.url,
          attributes |-> AttributesOf(imgObj.breeds[1])]

\* ------------------------------------------------------------ BanMatcher
\* eq without toLowerCase
eqCaseSensitive(a, b) == trim(a) = trim(b)

eq(a, b) == toLowerCase(trim(a)) = toLowerCase(trim(b))

SeqFilterNonEmpty(ts) == SelectSeq(ts, LAMBDA t : t # <<>>)

\* temperamentTokens without the trim of each token
temperamentTokensNoTrim(attrs) ==
    SeqFilterNonEmpty([i \in 1..Len(split(attrs.temperament)) |->
                          toLowerCase(split(attrs.temperament)[i])])

temperamentTokens(attrs) ==
    SeqFilterNonEmpty([i \in 1..Len(split(attrs.temperament)) |->
                          toLowerCase(trim(split(attrs.temperament)[i]))])

includes(ts, b) == \E i \in 1..Len(ts) : ts[i] = b

BanMatch(attrs, bl) ==
    \/ \E key \in ScalarKeys \cap DOMAIN bl :
          /\ Len(bl[key]) > 0
          /\ \E i \in 1..Len(bl[key]) : eq(attrs[key], bl[key][i])
    \/ /\ "temperament" \in DOMAIN bl
       /\ Len(bl["temperament"]) > 0
       /\ \E i \in 1..Len(bl["temperament"]) :
             includes(temperamentTokens(attrs), toLowerCase(trim(bl["temperament"][i])))

isBanned(item, bl) == IF item = NullRec THEN TRUE ELSE BanMatch(item.attributes, bl)

isBannedStrict(item, bl) == IF item = NullRec THEN TRUE ELSE BanMatch(item.attributes, bl)


\* ------------------------------------------------------------- ban lists
\* a ban list maps some of the keys to arrays of banned strings
BanEmpty == [k \in {} |-> <<>>]
BanBreed == "breed" :> << <<" ", "a", "B">> >>
BanTemper == "temperament" :> << <<"G", " ">> >>
BanBlankBreed == "breed" :> << <<" ">> >>
BanBlankTemper == "temperament" :> << <<>>, <<"x">> >>
BanScalars == ("weight" :> << <<"M">> >>) @@ ("life_span" :> << <<"x">>, <<"L">> >>)
BanAll == ("breed" :> << <<"ab">>, <<"B">>, <<>> >>) @@ ("temperament" :> << >>)

BanLists == {BanEmpty, BanBreed, BanTemper, BanBlankBreed, BanBlankTemper,
             BanScalars, BanAll}

\* ------------------------------------------------------------ the source
\* the search endpoint honours limit: limit=1 (single), limit=5 (batch, bounded
\* here by MaxBatch)
Limit(v) == IF v = "single" THEN 1 ELSE MaxBatch

SeqsUpTo(S, n) == UNION {[1..k -> S] : k \in 0..n}

Responses(v) == {NotArray} \cup {ArrayOf(items) : items \in SeqsUpTo(RawItems, Limit(v))}

\* the detail endpoint answers for the image asked for, with or without breeds;
\* its body may also parse to null
DetailObjs(imgObj) ==
    {NullItem} \cup
    {[id |-> imgObj.id, url |-> imgObj.url, breeds |-> bs] :
        bs \in {<<>>} \cup {<<b>> : b \in Breeds}}

\* ----------------------------------------------------------------- state
VARIABLES
    variant,       \* "batch" (part_002) or "single" (api.js)
    hasFetch,      \* typeof fetch !== 'undefined'
    banList,       \* options.banList
    maxAttempts,   \* options.maxAttempts
    pc,            \* where the async function is suspended
    attempt,       \* let attempt
    data,          \* const data = await res.json()
    idx,           \* position of the for..of loop over data (1-based)
    fallback,      \* let fallback
    result,        \* the value the promise resolved with
    error,         \* the error the promise rejected with
    primaryCalls,  \* history: search calls issued
    resultKind,    \* history: which return statement resolved
    srcIdx,        \* history: batch position of the item result came from
    fallbackIdx,   \* history: batch position of the item held by fallback
    detailBanned,  \* history: positions whose detail lookup gave banned data
    allExcluded,   \* history: every search call so far succeeded with
                   \*          candidates that are all excluded
    firstGood,     \* history: first attempt whose search call succeeded with
                   \*          an acceptable candidate (0: none yet)
    timer,         \* fetchWithTimeout: the abort timer is set and not cleared
    inFlight,      \* history: network calls issued and not yet ended
    backoffs,      \* history: backoff waits that took place
    primaryOutcome, \* history: how the search call of this attempt ended
    appVariant,    \* "history" (part_000), "plain" (part_001), "none": no App
    dog,           \* App: const [dog, setDog]
    loading,       \* App: const [loading, setLoading]
    appError,      \* App: const [error, setError]
    appBanList,    \* App: const [banList, setBanList]
    historyList,   \* App: const [history, setHistory]
    pending        \* history: handleFetch calls that have not finished

inputs == <<variant, hasFetch, banList, maxAttempts>>
history == <<primaryCalls, resultKind, srcIdx, fallbackIdx, detailBanned,
             allExcluded, firstGood>>
net == <<timer, inFlight, backoffs, primaryOutcome>>
app == <<appVariant, dog, loading, appError, appBanList, historyList, pending>>
vars == <<variant, hasFetch, banList, maxAttempts, pc, attempt, data, idx,
          fallback, result, error, primaryCalls, resultKind, srcIdx,
          fallbackIdx, detailBanned, allExcluded, firstGood,
          timer, inFlight, backoffs, primaryOutcome,
          appVariant, dog, loading, appError, appBanList, historyList, pending>>

Normalize(v, imgObj) ==
    IF v = "single" THEN normalizeImageObjStrict(imgObj) ELSE normalizeImageObj(imgObj)

Banned(v, rec, bl) ==
    IF v = "single" THEN isBannedStrict(rec, bl) ELSE isBanned(rec, bl)

Init ==
    /\ variant \in {"batch", "single"}
    /\ hasFetch \in BOOLEAN
    /\ banList \in BanLists
    /\ maxAttempts \in 1..MaxAttemptsBound
    /\ pc = "start"
    /\ attempt = 0
    /\ data = NotArray
    /\ idx = 0
    /\ fallback = NullRec
    /\ result = NullRec
    /\ error = "none"
    /\ primaryCalls = 0
    /\ resultKind = "none"
    /\ srcIdx = 0
    /\ fallbackIdx = 0
    /\ detailBanned = {}
    /\ allExcluded = TRUE
    /\ firstGood = 0
    /\ timer = FALSE
    /\ inFlight = 0
    /\ backoffs = 0
    /\ primaryOutcome = "none"
    /\ appVariant = "none"
    /\ dog = NullRec
    /\ loading = FALSE
    /\ appError = Null
    /\ appBanList = BanEmpty
    /\ historyList = <<>>
    /\ pending = 0


\* ---------------------------------------------------------- fetchRandomDog
\* return rec (kind and i record which return statement and which batch item)
Resolve(rec, kind, i) ==
    /\ pc' = "resolved"
    /\ result' = rec
    /\ resultKind' = kind
    /\ srcIdx' = i

\* Catch that swallows the error of the last attempt too
CatchNeverRethrows(e) == pc' = "backoff" /\ error' = error

\* catch (err): rethrow on the last attempt, else back off
Catch(e) ==
    IF attempt >= maxAttempts
    THEN pc' = "rejected" /\ error' = e
    ELSE pc' = "backoff" /\ error' = error

\* Scan without the preference for breed data: any record that is not banned is taken
RECURSIVE ScanNoPreference(_, _, _)
ScanNoPreference(items, bl, i) ==
    IF i > Len(items) THEN [t |-> "end", i |-> i]
    ELSE LET normalized == normalizeImageObj(items[i])
         IN  IF normalized = NullRec THEN ScanNoPreference(items, bl, i + 1)
             ELSE IF isBanned(normalized, bl) THEN ScanNoPreference(items, bl, i + 1)
             ELSE [t |-> "accept", i |-> i]

\* the for..of loop from position i up to its next await, return or end
RECURSIVE Scan(_, _, _)
Scan(items, bl, i) ==
    IF i > Len(items) THEN [t |-> "end", i |-> i]
    ELSE LET normalized == normalizeImageObj(items[i])
         IN  IF normalized = NullRec THEN Scan(items, bl, i + 1)
             ELSE IF isBanned(normalized, bl) THEN Scan(items, bl, i + 1)
             ELSE IF normalized.hasBreed THEN [t |-> "accept", i |-> i]
             ELSE [t |-> "enrich", i |-> i]

\* ContinueScan that forgets the fallback at the end of the batch and retries
ContinueScanDropFallback(items, i, fb, fbi) ==
    LET o == Scan(items, banList, i)
    IN  /\ idx' = o.i
        /\ fallback' = fb
        /\ fallbackIdx' = fbi
        /\ CASE o.t = "accept" ->
                   Resolve(normalizeImageObj(items[o.i]), "complete", o.i)
             [] o.t = "enrich" ->
                   pc' = "detailFetching" /\ UNCHANGED <<result, resultKind, srcIdx>>
             [] OTHER ->
                   pc' = "backoff" /\ UNCHANGED <<result, resultKind, srcIdx>>

\* ContinueScan that returns the fallback as soon as there is one
ContinueScanEagerFallback(items, i, fb, fbi) ==
    LET o == Scan(items, banList, i)
    IN  /\ fallback' = fb
        /\ fallbackIdx' = fbi
        /\ IF fb # NullRec
           THEN idx' = i /\ Resolve(fb, "fallback", fbi)
           ELSE /\ idx' = o.i
                /\ CASE o.t = "accept" ->
                           Resolve(normalizeImageObj(items[o.i]), "complete", o.i)
                     [] o.t = "enrich" ->
                           pc' = "detailFetching" /\ UNCHANGED <<result, resultKind, srcIdx>>
                     [] OTHER ->
                           pc' = "backoff" /\ UNCHANGED <<result, resultKind, srcIdx>>

\* run the loop from position i with fallback fb (taken from position fbi)
ContinueScan(items, i, fb, fbi) ==
    LET o == Scan(items, banList, i)
    IN  /\ idx' = o.i
        /\ fallback' = fb
        /\ fallbackIdx' = fbi
        /\ CASE o.t = "accept" ->
                   Resolve(normalizeImageObj(items[o.i]), "complete", o.i)
             [] o.t = "enrich" ->
                   pc' = "detailFetching" /\ UNCHANGED <<result, resultKind, srcIdx>>
             [] OTHER ->
                   IF fb # NullRec
                   THEN Resolve(fb, "fallback", fbi)
                   ELSE pc' = "backoff" /\ UNCHANGED <<result, resultKind, srcIdx>>

\* AfterEnrich without the test of line 148: the fallback is always overwritten
AfterEnrichOverwrite ==
    ContinueScan(data.items, idx + 1, normalizeImageObj(data.items[idx]), idx)

\* the rest of the loop body after an enrichment that returned nothing
AfterEnrich ==
    LET normalized == normalizeImageObj(data.items[idx])
    IN  IF fallback = NullRec
        THEN ContinueScan(data.items, idx + 1, normalized, idx)
        ELSE ContinueScan(data.items, idx + 1, fallback, fallbackIdx)

\* a candidate of a batch is excluded: it is a record and the BanMatcher rejects it
Excluded(v, imgObj, bl) ==
    Normalize(v, imgObj) # NullRec /\ Banned(v, Normalize(v, imgObj), bl)

Acceptable(v, imgObj, bl) ==
    Normalize(v, imgObj) # NullRec /\ ~Banned(v, Normalize(v, imgObj), bl)

NoteFailure ==
    /\ allExcluded' = FALSE
    /\ UNCHANGED <<primaryCalls, resultKind, srcIdx, fallbackIdx, detailBanned, firstGood>>

NoteBatch(d) ==
    /\ allExcluded' = (allExcluded /\ d.isArray /\
                       \A i \in 1..Len(d.items) :
                           d.items[i] # NullItem => Excluded(variant, d.items[i], banList))
    /\ firstGood' = IF firstGood = 0 /\ \E i \in 1..Len(d.items) :
                                           Acceptable(variant, d.items[i], banList)
                    THEN attempt ELSE firstGood
    /\ detailBanned' = {}
    /\ UNCHANGED primaryCalls

\* the call whose outcome is being handled has ended (its timer is cleared at
\* the latest now); if the loop went on to line 133, a detail call was issued
\* by fetchWithTimeout, which sets a new timer
SettleCall ==
    /\ inFlight' = inFlight - 1 + (IF pc' = "detailFetching" THEN 1 ELSE 0)
    /\ timer' = (pc' = "detailFetching")

\* Start without the test for fetch
StartNoCheck ==
    /\ pc = "start"
    /\ pc' = "loop" /\ error' = error
    /\ UNCHANGED <<app, inputs, attempt, data, idx, fallback, result, history, net>>

\* what res.json() gave: no array, an empty array, or a batch
OutcomeOf(d) ==
    IF ~d.isArray THEN "notArray" ELSE IF Len(d.items) = 0 THEN "empty" ELSE "batch"

Start ==
    /\ pc = "start"
    /\ IF hasFetch
       THEN pc' = "loop" /\ error' = error
       ELSE pc' = "rejected" /\ error' = "capability"
    /\ UNCHANGED <<app, inputs, attempt, data, idx, fallback, result, history, net>>

\* IssuePrimary with <= for < in the loop condition
IssuePrimaryOffByOne ==
    /\ pc = "loop"
    /\ attempt <= maxAttempts
    /\ attempt' = attempt + 1
    /\ primaryCalls' = primaryCalls + 1
    /\ pc' = "fetching"
    /\ timer' = TRUE
    /\ inFlight' = inFlight + 1
    /\ primaryOutcome' = "pending"
    /\ UNCHANGED <<app, inputs, data, idx, fallback, result, error, resultKind, srcIdx,
                   fallbackIdx, detailBanned, allExcluded, firstGood, backoffs>>

\* while (attempt < maxAttempts) { attempt += 1; fetchWithTimeout(url, ...)
IssuePrimary ==
    /\ pc = "loop"
    /\ attempt < maxAttempts
    /\ attempt' = attempt + 1
    /\ primaryCalls' = primaryCalls + 1
    /\ pc' = "fetching"
    /\ timer' = TRUE
    /\ inFlight' = inFlight + 1
    /\ primaryOutcome' = "pending"
    /\ UNCHANGED <<app, inputs, data, idx, fallback, result, error, resultKind, srcIdx,
                   fallbackIdx, detailBanned, allExcluded, firstGood, backoffs>>

\* Exhaust with the loop bound off by one
ExhaustEarly ==
    /\ pc = "loop"
    /\ attempt + 1 >= maxAttempts
    /\ pc' = "rejected"
    /\ error' = "exhausted"
    /\ UNCHANGED <<app, inputs, attempt, data, idx, fallback, result, history, net>>

\* the loop ends: throw new Error('No non-banned result found ...')
Exhaust ==
    /\ pc = "loop"
    /\ ~(attempt < maxAttempts)
    /\ pc' = "rejected"
    /\ error' = "exhausted"
    /\ UNCHANGED <<app, inputs, attempt, data, idx, fallback, result, history, net>>

\* PrimaryThrows that leaves the failed call outstanding
PrimaryThrowsNoAbort(e) ==
    /\ pc = "fetching"
    /\ e = "timeout" => timer
    /\ Catch(e)
    /\ NoteFailure
    /\ inFlight' = inFlight /\ timer' = FALSE
    /\ primaryOutcome' = e
    /\ UNCHANGED backoffs
    /\ UNCHANGED <<app, inputs, attempt, data, idx, fallback, result>>

\* fetch() rejects: transport failure, or the abort of the timeout
PrimaryThrows(e) ==
    /\ pc = "fetching"
    /\ e = "timeout" => timer
    /\ Catch(e)
    /\ NoteFailure
    /\ SettleCall
    /\ primaryOutcome' = e
    /\ UNCHANGED backoffs
    /\ UNCHANGED <<app, inputs, attempt, data, idx, fallback, result>>

\* fetch() resolves with the response head
PrimaryHeaders(ok) ==
    /\ pc = "fetching"
    /\ IF ok
       THEN /\ pc' = "body" /\ error' = error
            /\ timer' = FALSE
            /\ UNCHANGED <<history, inFlight, primaryOutcome>>
       ELSE /\ Catch("http") /\ NoteFailure
            /\ SettleCall
            /\ primaryOutcome' = "http"
    /\ UNCHANGED backoffs
    /\ UNCHANGED <<app, inputs, attempt, data, idx, fallback, result>>

\* res.json() rejects
PrimaryBodyFails ==
    /\ pc = "body"
    /\ Catch("parse")
    /\ NoteFailure
    /\ SettleCall
    /\ primaryOutcome' = "parse"
    /\ UNCHANGED backoffs
    /\ UNCHANGED <<app, inputs, attempt, data, idx, fallback, result>>

\* batch variant: res.json() resolves with d
PrimaryBodyBatch(d) ==
    /\ pc = "body"
    /\ variant = "batch"
    /\ data' = d
    /\ NoteBatch(d)
    /\ IF ~d.isArray \/ Len(d.items) = 0
       THEN /\ pc' = "loop"
            /\ UNCHANGED <<idx, fallback, fallbackIdx, result, resultKind, srcIdx>>
       ELSE ContinueScan(d.items, 1, NullRec, 0)
    /\ SettleCall
    /\ primaryOutcome' = OutcomeOf(d)
    /\ UNCHANGED <<app, inputs, attempt, error, backoffs>>

\* single variant: res.json() resolves with d
PrimaryBodySingle(d) ==
    /\ pc = "body"
    /\ variant = "single"
    /\ data' = d
    /\ NoteBatch(d)
    /\ LET imgObj == IF d.isArray /\ Len(d.items) > 0 THEN d.items[1] ELSE NullItem
           normalized == normalizeImageObjStrict(imgObj)
       IN  IF normalized = NullRec
           THEN pc' = "loop" /\ UNCHANGED <<idx, result, resultKind, srcIdx>>
           ELSE IF isBannedStrict(normalized, banList)
           THEN pc' = "backoff" /\ UNCHANGED <<idx, result, resultKind, srcIdx>>
           ELSE idx' = 1 /\ Resolve(normalized, "complete", 1)
    /\ SettleCall
    /\ primaryOutcome' = OutcomeOf(d)
    /\ UNCHANGED <<app, inputs, attempt, error, fallback, fallbackIdx, backoffs>>

\* DetailThrows without the inner try: the error reaches the outer catch
DetailThrowsUncaught ==
    /\ pc = "detailFetching"
    /\ Catch("network")
    /\ SettleCall
    /\ UNCHANGED <<app, inputs, attempt, data, idx, fallback, result, history, backoffs,
                   primaryOutcome>>

\* the detail fetch() rejects (transport failure or abort): caught, ignored
DetailThrows ==
    /\ pc = "detailFetching"
    /\ AfterEnrich
    /\ SettleCall
    /\ UNCHANGED <<app, inputs, attempt, data, error, primaryCalls, detailBanned,
                   allExcluded, firstGood, backoffs, primaryOutcome>>

\* the detail fetch() resolves with the response head
DetailHeaders(ok) ==
    /\ pc = "detailFetching"
    /\ IF ok
       THEN /\ pc' = "detailBody"
            /\ timer' = FALSE
            /\ UNCHANGED <<idx, fallback, fallbackIdx, result, resultKind, srcIdx,
                           inFlight>>
       ELSE AfterEnrich /\ SettleCall
    /\ UNCHANGED <<app, inputs, attempt, data, error, primaryCalls, detailBanned,
                   allExcluded, firstGood, backoffs, primaryOutcome>>

\* detailRes.json() rejects: caught, ignored
DetailBodyFails ==
    /\ pc = "detailBody"
    /\ AfterEnrich
    /\ SettleCall
    /\ UNCHANGED <<app, inputs, attempt, data, error, primaryCalls, detailBanned,
                   allExcluded, firstGood, backoffs, primaryOutcome>>

\* OnDetail without the second ban check
OnDetailNoRecheck(detailObj) ==
    LET enriched == normalizeImageObj(detailObj)
    IN  IF enriched # NullRec /\ enriched.hasBreed
        THEN /\ Resolve(enriched, "enriched", idx)
             /\ UNCHANGED <<idx, fallback, fallbackIdx, detailBanned>>
        ELSE /\ AfterEnrich
             /\ detailBanned' = detailBanned

\* normalize the detail, re-check the ban list, return or go on with the loop
OnDetail(detailObj) ==
    LET enriched == normalizeImageObj(detailObj)
    IN  IF enriched # NullRec /\ enriched.hasBreed /\ ~isBanned(enriched, banList)
        THEN /\ Resolve(enriched, "enriched", idx)
             /\ UNCHANGED <<idx, fallback, fallbackIdx, detailBanned>>
        ELSE /\ AfterEnrich
             /\ detailBanned' =
                   IF enriched # NullRec /\ enriched.hasBreed
                   THEN detailBanned \cup {idx} ELSE detailBanned

\* detailRes.json() resolves with detailObj
DetailBody ==
    /\ pc = "detailBody"
    /\ \E detailObj \in DetailObjs(data.items[idx]) : OnDetail(detailObj)
    /\ SettleCall
    /\ UNCHANGED <<app, inputs, attempt, data, error, primaryCalls, allExcluded, firstGood,
                   backoffs, primaryOutcome>>

\* Backoff that consumes an attempt
BackoffCountsAttempt ==
    /\ pc = "backoff"
    /\ pc' = "loop"
    /\ backoffs' = backoffs + 1
    /\ attempt' = attempt + 1
    /\ UNCHANGED <<app, inputs, data, idx, fallback, result, error, history,
                   timer, inFlight, primaryOutcome>>

\* await new Promise(r => setTimeout(r, 300)) elapses
Backoff ==
    /\ pc = "backoff"
    /\ pc' = "loop"
    /\ backoffs' = backoffs + 1
    /\ UNCHANGED <<app, inputs, attempt, data, idx, fallback, result, error, history,
                   timer, inFlight, primaryOutcome>>

Next ==
    \/ Start
    \/ IssuePrimary
    \/ Exhaust
    \/ \E e \in {"network", "timeout"} : PrimaryThrows(e)
    \/ \E ok \in BOOLEAN : PrimaryHeaders(ok)
    \/ PrimaryBodyFails
    \/ \E d \in Responses("batch") : PrimaryBodyBatch(d)
    \/ \E d \in Responses("single") : PrimaryBodySingle(d)
    \/ DetailThrows
    \/ \E ok \in BOOLEAN : DetailHeaders(ok)
    \/ DetailBodyFails
    \/ DetailBody
    \/ Backoff

Spec == Init /\ [][Next]_vars

\* ------------------------------------------------------------------- App
\* const maxAttempts = 8, cut down to this many attempts
AppMaxAttempts == 1

\* .slice(0, 50), cut down to this many entries
HistoryCap == 1

\* the ban list is explored up to this many values in all
MaxBans == 2

\* the messages of the errors fetchRandomDog rejects with
ExhaustionMessage ==
    <<"N", "o", " ", "n", "o", "n", "-", "b", "a", "n", "n", "e", "d", " ",
      "r", "e", "s", "u", "l", "t", " ", "f", "o", "u", "n", "d", " ", "a",
      "f", "t", "e", "r", " ", "m", "a", "x", "i", "m", "u", "m", " ", "a",
      "t", "t", "e", "m", "p", "t", "s">>

CapabilityMessage ==
    <<"f", "e", "t", "c", "h", " ", "i", "s", " ", "n", "o", "t", " ", "a",
      "v", "a", "i", "l", "a", "b", "l", "e", " ", "i", "n", " ", "t", "h",
      "i", "s", " ", "e", "n", "v", "i", "r", "o", "n", "m", "e", "n", "t">>

HttpMessage ==
    <<"T", "h", "e", "D", "o", "g", "A", "P", "I", " ", "e", "r", "r", "o",
      "r", ":", " ", "5", "0", "0", " ">>

\* messages of the runtime: fetch() rejected, the call was aborted, res.json() rejected
NetworkMessage ==
    <<"F", "a", "i", "l", "e", "d", " ", "t", "o", " ", "f", "e", "t", "c",
      "h">>

AbortMessage ==
    <<"s", "i", "g", "n", "a", "l", " ", "i", "s", " ", "a", "b", "o", "r",
      "t", "e", "d", " ", "w", "i", "t", "h", "o", "u", "t", " ", "r", "e",
      "a", "s", "o", "n">>

ParseMessage ==
    <<"U", "n", "e", "x", "p", "e", "c", "t", "e", "d", " ", "e", "n", "d",
      " ", "o", "f", " ", "J", "S", "O", "N", " ", "i", "n", "p", "u", "t">>

MessageOf(e) ==
    CASE e = "exhausted" -> ExhaustionMessage
      [] e = "capability" -> CapabilityMessage
      [] e = "http" -> HttpMessage
      [] e = "network" -> NetworkMessage
      [] e = "timeout" -> AbortMessage
      [] e = "parse" -> ParseMessage

\* the message handleFetch shows instead of the exhaustion error's own
DedicatedMessage ==
    <<"N", "o", " ", "a", "v", "a", "i", "l", "a", "b", "l", "e", " ", "r",
      "e", "s", "u", "l", "t", " ", "f", "o", "u", "n", "d", " ", "a", "f",
      "t", "e", "r", " ", "m", "u", "l", "t", "i", "p", "l", "e", " ", "a",
      "t", "t", "e", "m", "p", "t", "s", ".", " ", "T", "r", "y", " ", "r",
      "e", "m", "o", "v", "i", "n", "g", " ", "s", "o", "m", "e", " ", "b",
      "a", "n", "s", " ", "a", "n", "d", " ", "t", "r", "y", " ", "a", "g",
      "a", "i", "n", ".">>

NoNonBanned ==
    <<"n", "o", " ", "n", "o", "n", "-", "b", "a", "n", "n", "e", "d">>

\* String.prototype.includes
stringIncludes(s, sub) ==
    \E i \in 0..(Len(s) - Len(sub)) : SubSeq(s, i + 1, i + Len(sub)) = sub

\* a value of the error state: a message (null is NullRec)
ErrorText(msg) == [message |-> msg]

\* { ...prev, [key]: arr }
WithKey(prev, key, arr) ==
    [k \in DOMAIN prev \cup {key} |-> IF k = key THEN arr ELSE prev[k]]

\* copy = { ...prev }; delete copy[key]
WithoutKey(prev, key) == [k \in DOMAIN prev \ {key} |-> prev[k]]

\* Array.isArray(prev[key]) ? prev[key] : []
ArrOf(prev, key) == IF key \in DOMAIN prev THEN prev[key] ELSE <<>>

\* arr.some(v => String(v).trim().toLowerCase() === x)
some(arr, x) == \E i \in 1..Len(arr) : toLowerCase(trim(arr[i])) = x

\* addBan that appends without the test for an equal value
addBanNoDedupe(av, prev, key, value) ==
    IF av = "history"
    THEN IF trim(value) = <<>> THEN prev
         ELSE WithKey(prev, key, Append(ArrOf(prev, key), trim(value)))
    ELSE WithKey(prev, key, Append(ArrOf(prev, key), value))

\* the updater of addBan(key, value): part_000 ("history") trims the value and
\* ignores a blank one, part_001 ("plain") stores the value as given
addBan(av, prev, key, value) ==
    IF av = "history"
    THEN LET trimmed == trim(value)
         IN  IF trimmed = <<>> THEN prev
             ELSE IF some(ArrOf(prev, key), toLowerCase(trimmed)) THEN prev
             ELSE WithKey(prev, key, Append(ArrOf(prev, key), trimmed))
    ELSE IF some(ArrOf(prev, key), toLowerCase(trim(value))) THEN prev
         ELSE WithKey(prev, key, Append(ArrOf(prev, key), value))

\* removeBan that keeps the key of a list that became empty
removeBanKeepsKey(prev, key, value) ==
    IF key \notin DOMAIN prev THEN prev
    ELSE WithKey(prev, key,
                 SelectSeq(prev[key],
                           LAMBDA v : toLowerCase(trim(v)) # toLowerCase(trim(value))))

\* the updater of removeBan(key, value)
removeBan(prev, key, value) ==
    IF key \notin DOMAIN prev THEN prev
    ELSE LET arr == SelectSeq(prev[key],
                        LAMBDA v : toLowerCase(trim(v)) # toLowerCase(trim(value)))
         IN  IF Len(arr) > 0 THEN WithKey(prev, key, arr) ELSE WithoutKey(prev, key)

\* [res, ...prev].slice(0, cap)
Prepend(res, prev, cap) ==
    LET all == <<res>> \o prev
    IN  IF Len(all) > cap THEN SubSeq(all, 1, cap) ELSE all

\* the attribute buttons of the result card: <<key, value>> handed to addBan
Clickable(av, d) ==
    IF d = NullRec THEN {}
    ELSE LET tokens == split(d.attributes.temperament)
         IN  IF av = "history"
             THEN {<<key, d.attributes[key]>> :
                      key \in {k \in ScalarKeys : d.attributes[k] # <<>>}}
                  \cup {<<"temperament", trim(tokens[i])>> :
                           i \in {j \in 1..Len(tokens) : trim(tokens[j]) # <<>>}}
             ELSE {<<key, d.attributes[key]>> : key \in ScalarKeys}
                  \cup (IF d.attributes.temperament = <<>> THEN {}
                        ELSE {<<"temperament", trim(tokens[i])>> : i \in 1..Len(tokens)})

\* the values of a ban list, counted over all keys
RECURSIVE BanCount(_)
BanCount(bl) ==
    IF DOMAIN bl = {} THEN 0
    ELSE LET key == CHOOSE k \in DOMAIN bl : TRUE
         IN  Len(bl[key]) + BanCount(WithoutKey(bl, key))

\* where fetchRandomDog is suspended in an await (or not running): only there
\* can a click be handled
AtAwait == pc \in {"idle", "fetching", "body", "detailFetching", "detailBody", "backoff"}

\* the state of a fetchRandomDog call about to run with ban list bl (p = "start"),
\* or of no call (p = "idle")
Invocation(p, bl) ==
    /\ pc' = p
    /\ banList' = bl
    /\ maxAttempts' = AppMaxAttempts
    /\ attempt' = 0
    /\ data' = NotArray
    /\ idx' = 0
    /\ fallback' = NullRec
    /\ result' = NullRec
    /\ error' = "none"
    /\ primaryCalls' = 0
    /\ resultKind' = "none"
    /\ srcIdx' = 0
    /\ fallbackIdx' = 0
    /\ detailBanned' = {}
    /\ allExcluded' = TRUE
    /\ firstGood' = 0
    /\ timer' = FALSE
    /\ inFlight' = 0
    /\ backoffs' = 0
    /\ primaryOutcome' = "none"
    /\ UNCHANGED <<variant, hasFetch>>

AppInit ==
    /\ appVariant \in {"history", "plain"}
    /\ variant \in {"batch", "single"}
    /\ hasFetch \in BOOLEAN
    /\ dog = NullRec
    /\ loading = FALSE
    /\ appError = NullRec
    /\ appBanList = BanEmpty
    /\ historyList = <<>>
    /\ pending = 0
    /\ pc = "idle"
    /\ banList = BanEmpty
    /\ maxAttempts = AppMaxAttempts
    /\ attempt = 0
    /\ data = NotArray
    /\ idx = 0
    /\ fallback = NullRec
    /\ result = NullRec
    /\ error = "none"
    /\ primaryCalls = 0
    /\ resultKind = "none"
    /\ srcIdx = 0
    /\ fallbackIdx = 0
    /\ detailBanned = {}
    /\ allExcluded = TRUE
    /\ firstGood = 0
    /\ timer = FALSE
    /\ inFlight = 0
    /\ backoffs = 0
    /\ primaryOutcome = "none"

\* handleFetch on a button that is never disabled
HandleFetchNotDisabled ==
    /\ AtAwait
    /\ pending < 2
    /\ loading' = TRUE
    /\ appError' = NullRec
    /\ pending' = pending + 1
    /\ Invocation("start", appBanList)
    /\ UNCHANGED <<appVariant, dog, appBanList, historyList>>

\* a click on the Fetch button: handleFetch up to its await
HandleFetch ==
    /\ ~loading
    /\ pc = "idle"
    /\ loading' = TRUE
    /\ appError' = NullRec
    /\ pending' = pending + 1
    /\ Invocation("start", appBanList)
    /\ UNCHANGED <<appVariant, dog, appBanList, historyList>>

\* handleFetch after its await that leaves the last result on a rejection
HandleFetchSettlesKeepsDog ==
    /\ loading
    /\ pc \in {"resolved", "rejected"}
    /\ IF pc = "resolved"
       THEN /\ dog' = result
            /\ historyList' = IF appVariant = "history"
                              THEN Prepend(result, historyList, HistoryCap)
                              ELSE historyList
            /\ appError' = appError
       ELSE /\ appError' = ErrorText(MessageOf(error))
            /\ dog' = dog
            /\ historyList' = historyList
    /\ loading' = FALSE
    /\ pending' = pending - 1
    /\ Invocation("idle", BanEmpty)
    /\ UNCHANGED <<appVariant, appBanList>>

\* handleFetch after its await: try, catch and finally
HandleFetchSettles ==
    /\ loading
    /\ pc \in {"resolved", "rejected"}
    /\ IF pc = "resolved"
       THEN /\ dog' = result
            /\ historyList' = IF appVariant = "history"
                              THEN Prepend(result, historyList, HistoryCap)
                              ELSE historyList
            /\ appError' = appError
       ELSE /\ LET msg == MessageOf(error)
               IN  appError' = IF stringIncludes(toLowerCase(msg), NoNonBanned)
                               THEN ErrorText(DedicatedMessage)
                               ELSE ErrorText(msg)
            /\ dog' = NullRec
            /\ historyList' = historyList
    /\ loading' = FALSE
    /\ pending' = pending - 1
    /\ Invocation("idle", BanEmpty)
    /\ UNCHANGED <<appVariant, appBanList>>

\* a click on an attribute button of the result card
ClickAttribute ==
    /\ appVariant # "none"
    /\ AtAwait
    /\ BanCount(appBanList) < MaxBans
    /\ \E kv \in Clickable(appVariant, dog) :
           appBanList' = addBan(appVariant, appBanList, kv[1], kv[2])
    /\ UNCHANGED <<appVariant, dog, loading, appError, historyList, pending>>
    /\ UNCHANGED <<inputs, pc, attempt, data, idx, fallback, result, error, history, net>>

\* a click on an item of the ban list
ClickBan ==
    /\ appVariant # "none"
    /\ AtAwait
    /\ \E key \in DOMAIN appBanList : \E i \in 1..Len(appBanList[key]) :
           appBanList' = removeBan(appBanList, key, appBanList[key][i])
    /\ UNCHANGED <<appVariant, dog, loading, appError, historyList, pending>>
    /\ UNCHANGED <<inputs, pc, attempt, data, idx, fallback, result, error, history, net>>

\* a click on an item of the history column (part_000 only)
LoadFromHistory ==
    /\ appVariant = "history"
    /\ AtAwait
    /\ \E i \in 1..Len(historyList) : dog' = historyList[i]
    /\ UNCHANGED <<appVariant, loading, appError, appBanList, historyList, pending>>
    /\ UNCHANGED <<inputs, pc, attempt, data, idx, fallback, result, error, history, net>>

\* what the search endpoint answers while the App runs: no array, or an array of
\* at most one of these items
AppItems == {Item1, Item3}

AppResponses == {NotArray} \cup {ArrayOf(items) : items \in SeqsUpTo(AppItems, 1)}

AppNext ==
    \/ HandleFetch
    \/ HandleFetchSettles
    \/ ClickAttribute
    \/ ClickBan
    \/ LoadFromHistory
    \/ Start
    \/ IssuePrimary
    \/ Exhaust
    \/ \E e \in {"network", "timeout"} : PrimaryThrows(e)
    \/ \E ok \in BOOLEAN : PrimaryHeaders(ok)
    \/ PrimaryBodyFails
    \/ \E d \in AppResponses : PrimaryBodyBatch(d)
    \/ \E d \in AppResponses : PrimaryBodySingle(d)
    \/ DetailThrows
    \/ \E ok \in BOOLEAN : DetailHeaders(ok)
    \/ DetailBodyFails
    \/ DetailBody
    \/ Backoff

AppSpec == AppInit /\ [][AppNext]_vars




\* ------------------------------------------------------------ properties
\* the words of the claims, stated without the BanMatcher's code
Norm(s) == toLowerCase(trim(s))

BannedValues(key) ==
    IF key \in DOMAIN banList
    THEN {banList[key][i] : i \in 1..Len(banList[key])}
    ELSE {}

Tokens(rec) == split(rec.attributes.temperament)

ScalarHit(rec) ==
    \E key \in ScalarKeys : \E b \in BannedValues(key) :
        Norm(rec.attributes[key]) = Norm(b)

TokenHit(rec) ==
    \E i \in 1..Len(Tokens(rec)) : \E b \in BannedValues("temperament") :
        Norm(Tokens(rec)[i]) = Norm(b)

NonEmptyTokenHit(rec) ==
    \E i \in 1..Len(Tokens(rec)) : \E b \in BannedValues("temperament") :
        Norm(Tokens(rec)[i]) # <<>> /\ Norm(Tokens(rec)[i]) = Norm(b)

Complete(imgObj) == imgObj # NullItem /\ Len(imgObj.breeds) > 0

Incomplete(imgObj) == imgObj # NullItem /\ Len(imgObj.breeds) = 0

InBatch(imgObj) == \E i \in 1..Len(data.items) : data.items[i] = imgObj

Settled == pc \in {"resolved", "rejected"}

\* C1: a record fetchRandomDog resolves with (complete, enriched or fallback)
\* has, for breed, life_span and weight, a value that equals no value banned
\* for that key after trimming and lower-casing.
C1_ScalarNeverBanned == pc = "resolved" => ~ScalarHit(result)

\* C1 witness: under a breed ban that matches only after trim and lower-case,
\* a batch holding the banned breed resolved with another breed.
C1_Witness ==
    /\ pc = "resolved"
    /\ banList = BanBreed
    /\ InBatch(Item1)
    /\ result.attributes.breed = <<"b">>

\* C2 (as claimed): no comma-separated token of the returned temperament,
\* trimmed and lower-cased, equals a trimmed, lower-cased banned temperament.
C2_NoTokenBanned == pc = "resolved" => ~TokenHit(result)

\* C2 (amended): no non-empty comma-separated token of the returned
\* temperament, trimmed and lower-cased, equals a trimmed, lower-cased banned
\* temperament; empty tokens are dropped before the comparison.
C2_NoNonEmptyTokenBanned == pc = "resolved" => ~NonEmptyTokenHit(result)

\* C2 witness: under a temperament ban that matches a token of one breed only
\* after trim and lower-case, the batch held that breed and the call resolved
\* with a record that has temperament tokens.
C2_Witness ==
    /\ pc = "resolved"
    /\ banList = BanTemper
    /\ InBatch(Item1)
    /\ result.attributes.temperament = BreedB.temperament

\* C3: in the batch variant a candidate whose detail lookup gave attribute
\* data that the BanMatcher excludes is returned neither as the enriched
\* record nor as the fallback.
C3_DetailBannedNeverReturned ==
    (variant = "batch" /\ pc = "resolved") => srcIdx \notin detailBanned

\* C4: the number of search calls issued is at most maxAttempts.
C4_PrimaryCallsBounded == primaryCalls <= maxAttempts

\* C4 witness: a run with several attempts allowed that used them all.
C4_Witness ==
    /\ Settled
    /\ maxAttempts > 1
    /\ primaryCalls = maxAttempts


\* C5: if fetch is available and every search call succeeded with candidates
\* that are all excluded by the ban list, fetchRandomDog settles only by
\* rejecting with the exhaustion error, after exactly maxAttempts search calls.
C5_ExhaustionWhenAllExcluded ==
    (hasFetch /\ allExcluded /\ Settled) =>
        (pc = "rejected" /\ error = "exhausted" /\ primaryCalls = maxAttempts)

\* C5 witness: several attempts, the last batch full of excluded candidates,
\* rejected with the exhaustion error.
C5_Witness ==
    /\ hasFetch
    /\ allExcluded
    /\ pc = "rejected"
    /\ maxAttempts > 1
    /\ Len(data.items) = Limit(variant)
    /\ \A i \in 1..Len(data.items) : data.items[i] # NullItem

\* C6: fetchRandomDog resolves during the first attempt k whose search call
\* succeeds with an acceptable candidate: it resolves in no other attempt,
\* exactly k search calls have been issued then, and from the arrival of that
\* batch on the invocation only enriches or resolves (no backoff, no further
\* search call, no rejection).
C6_ResolvesInFirstGoodAttempt ==
    /\ pc = "resolved" => (firstGood = attempt /\ primaryCalls = attempt)
    /\ firstGood # 0 =>
          /\ firstGood <= maxAttempts
          /\ primaryCalls = firstGood
          /\ attempt = firstGood
          /\ pc \in {"detailFetching", "detailBody", "resolved"}

\* C6 witness: resolved in the second attempt after a first attempt that was
\* rejected or failed.
C6_Witness == pc = "resolved" /\ firstGood = 2 /\ primaryCalls = 2

\* position of the first attribute-complete item of the current batch
FirstComplete ==
    CHOOSE i \in 1..Len(data.items) :
        Complete(data.items[i]) /\ \A j \in 1..(i - 1) : ~Complete(data.items[j])

\* the first search call succeeded with a batch that holds a complete item,
\* and the ban list is empty
C7_Case ==
    /\ banList = BanEmpty
    /\ attempt = 1
    /\ data.isArray
    /\ \E i \in 1..Len(data.items) : Complete(data.items[i])

\* C7 (as claimed): in that case the call resolves after the single search
\* call with the first attribute-complete item of the batch, whatever
\* precedes it.
C7_FirstCompleteReturned ==
    (C7_Case /\ pc = "resolved") =>
        /\ primaryCalls = 1
        /\ result = Normalize(variant, data.items[FirstComplete])

\* C7 (amended): in that case no second search call is made and the call
\* resolves with the first attribute-complete item of the batch, unless the
\* detail lookup of an attribute-incomplete item that precedes it gave
\* attribute data, and then with that enriched record.
C7_FirstCompleteOrEarlierEnriched ==
    C7_Case =>
        /\ primaryCalls = 1
        /\ pc \in {"detailFetching", "detailBody", "resolved"}
        /\ pc = "resolved" =>
              \/ /\ resultKind = "complete"
                 /\ srcIdx = FirstComplete
                 /\ result = Normalize(variant, data.items[FirstComplete])
              \/ /\ resultKind = "enriched"
                 /\ srcIdx < FirstComplete
                 /\ Incomplete(data.items[srcIdx])
                 /\ result.hasBreed

\* C7 witness: the complete item came second, after an incomplete item whose
\* enrichment gave nothing, and was returned.
C7_Witness ==
    /\ C7_Case
    /\ pc = "resolved"
    /\ resultKind = "complete"
    /\ srcIdx = 2
    /\ Incomplete(data.items[1])
    /\ fallback # NullRec


\* the ban list excludes a record: a scalar value or a non-empty temperament
\* token equals a banned value after trimming and lower-casing
BanHit(rec) == ScalarHit(rec) \/ NonEmptyTokenHit(rec)

\* a batch item that is not excluded and attribute-incomplete
FallbackEligible(imgObj) == Incomplete(imgObj) /\ ~BanHit(normalizeImageObj(imgObj))

\* position of the first eligible item of the current batch
FirstEligible ==
    CHOOSE i \in 1..Len(data.items) :
        /\ FallbackEligible(data.items[i])
        /\ \A j \in 1..(i - 1) : ~FallbackEligible(data.items[j])

\* a returned fallback is the first eligible item of the batch
C8_FallbackIsFirstEligible ==
    (variant = "batch" /\ pc = "resolved" /\ resultKind = "fallback") =>
        /\ \E i \in 1..Len(data.items) : FallbackEligible(data.items[i])
        /\ srcIdx = FirstEligible
        /\ result = normalizeImageObj(data.items[FirstEligible])
        /\ ~result.hasBreed

\* a step within one attempt leaves a recorded fallback as it is
C8_FallbackKept ==
    (fallback # NullRec /\ attempt' = attempt) => fallback' = fallback

\* C8: in the batch variant the fallback, once recorded, is not overwritten
\* within the attempt, and a returned fallback is the first item of the batch,
\* in batch order, that is not excluded and is attribute-incomplete.
C8_FallbackFirstAndKept == []C8_FallbackIsFirstEligible /\ [][C8_FallbackKept]_vars

\* C8 witness: the batch held two eligible items and the first was returned
\* as the fallback.
C8_Witness ==
    /\ variant = "batch"
    /\ pc = "resolved"
    /\ resultKind = "fallback"
    /\ srcIdx = 1
    /\ \E j \in 2..Len(data.items) :
          FallbackEligible(data.items[j]) /\ data.items[j] # data.items[1]

\* C9: in the batch variant a fallback is returned only after the whole batch
\* was scanned and only if the batch holds no attribute-complete candidate
\* that is not excluded; and once a fallback is recorded the attempt does not
\* retry: it only enriches further items or resolves, and if it resolves with
\* neither a complete nor an enriched record it resolves with the fallback.
C9_FallbackLastResort ==
    /\ (variant = "batch" /\ pc = "resolved" /\ resultKind = "fallback") =>
          /\ idx = Len(data.items) + 1
          /\ ~result.hasBreed
          /\ \A i \in 1..Len(data.items) :
                Complete(data.items[i]) => BanHit(normalizeImageObj(data.items[i]))
    /\ fallback # NullRec =>
          /\ pc \in {"detailFetching", "detailBody", "resolved"}
          /\ (pc = "resolved" /\ resultKind \notin {"complete", "enriched"}) =>
                (resultKind = "fallback" /\ result = fallback)

\* C9 witness: the fallback was recorded at the first item, the rest of the
\* batch (an excluded complete item) was scanned, and the fallback returned.
C9_Witness ==
    /\ variant = "batch"
    /\ pc = "resolved"
    /\ resultKind = "fallback"
    /\ srcIdx = 1
    /\ Len(data.items) > 1
    /\ \E i \in 2..Len(data.items) : Complete(data.items[i])

\* C10: in the batch variant a detail call is outstanding only for an item
\* that was normalized, is not excluded and is attribute-incomplete; and an
\* enriched record is returned only if it carries breed data and the ban list
\* does not exclude it.
C10_EnrichmentGuarded ==
    /\ pc \in {"detailFetching", "detailBody"} =>
          /\ variant = "batch"
          /\ idx \in 1..Len(data.items)
          /\ FallbackEligible(data.items[idx])
    /\ (pc = "resolved" /\ resultKind = "enriched") =>
          /\ variant = "batch"
          /\ Incomplete(data.items[srcIdx])
          /\ result.hasBreed
          /\ ~BanHit(result)

\* C10 witness: under a breed ban, the first item of the batch was excluded
\* without a detail call, the second was enriched and the enriched record
\* returned.
C10_Witness ==
    /\ pc = "resolved"
    /\ resultKind = "enriched"
    /\ banList = BanBreed
    /\ data.items[1] = Item1
    /\ srcIdx = 2


\* ways the search call of an attempt fails: transport failure, timeout,
\* non-OK status, body that does not parse
Failures == {"network", "timeout", "http", "parse"}

\* a failed search call is swallowed before the last attempt and surfaced in it
C11_FailureHandled ==
    primaryOutcome \in Failures =>
        IF attempt < maxAttempts
        THEN pc \in {"backoff", "loop"} /\ error = "none"
        ELSE pc = "rejected" /\ error = primaryOutcome

\* after a swallowed failure: the backoff wait, then the next search call
C11_FailureStep ==
    (primaryOutcome \in Failures /\ pc # "rejected") =>
        /\ pc = "backoff" => (pc' = "loop" /\ backoffs' = backoffs + 1)
        /\ pc = "loop" =>
              (pc' = "fetching" /\ attempt' = attempt + 1 /\ backoffs > 0)

\* C11 (as claimed, its last sentence): fetchRandomDog rejects only with the
\* exhaustion error or with the failure of the search call of the last attempt.
C11_OnlyExhaustionOrLastFailure ==
    pc = "rejected" =>
        \/ error = "exhausted"
        \/ attempt = maxAttempts /\ primaryOutcome \in Failures /\ error = primaryOutcome

\* the same with the capability error, raised before any attempt
C11_RejectionKinds ==
    pc = "rejected" =>
        \/ error = "exhausted"
        \/ attempt = maxAttempts /\ primaryOutcome \in Failures /\ error = primaryOutcome
        \/ error = "capability" /\ ~hasFetch /\ attempt = 0

\* C11 (amended): a failed search call (transport failure, timeout, non-OK
\* status) in attempt k < maxAttempts is swallowed and followed by a backoff
\* and attempt k+1; in attempt maxAttempts it is surfaced; fetchRandomDog
\* rejects only with the exhaustion error, the failure of the search call of
\* the last attempt, or the capability error raised before the first attempt.
C11_FailuresSwallowedUntilLast ==
    /\ []C11_FailureHandled
    /\ []C11_RejectionKinds
    /\ [][C11_FailureStep]_vars

\* C11 witness: the first search call failed and was swallowed, the second
\* failed too and its error was surfaced.
C11_Witness ==
    /\ pc = "rejected"
    /\ maxAttempts = 2
    /\ attempt = 2
    /\ backoffs = 1
    /\ error = "timeout"


\* the search call gave a body that is no array or an empty array
Malformed == primaryOutcome \in {"notArray", "empty"}

\* C12: a response that is not an array or is an empty array consumes one
\* attempt and is retried while attempts remain; on the last attempt the
\* error surfaced is the one a failed search call surfaces, not the exhaustion
\* error.
C12_MalformedSurfacedAsFailure ==
    Malformed =>
        /\ primaryCalls = attempt
        /\ attempt < maxAttempts => pc \in {"loop", "backoff", "fetching"}
        /\ pc = "rejected" => error # "exhausted"

\* C13: between two consecutive search calls of one invocation a backoff wait
\* takes place, whatever ended the earlier attempt.
C13_BackoffBetweenPrimaryCalls == backoffs + 1 >= primaryCalls


\* C14: without fetch the invocation fails at once with the capability error:
\* no network call, no backoff wait, no attempt, no retry.
C14_CapabilityErrorImmediate ==
    ~hasFetch =>
        /\ pc \in {"start", "rejected"}
        /\ pc = "rejected" => error = "capability"
        /\ primaryCalls = 0
        /\ inFlight = 0
        /\ backoffs = 0
        /\ attempt = 0
        /\ ~timer

\* C14 witness: rejected with the capability error, with a ban list and
\* several attempts allowed.
C14_Witness ==
    /\ ~hasFetch
    /\ pc = "rejected"
    /\ error = "capability"
    /\ maxAttempts > 1
    /\ banList = BanBreed


\* a step that ends an enrichment call without a result being returned from it
EnrichmentFailed ==
    /\ pc \in {"detailFetching", "detailBody"}
    /\ pc' # "detailBody"
    /\ ~(pc' = "resolved" /\ resultKind' = "enriched")

\* C15: (batch variant) a failed enrichment call never rejects the invocation
\* and never ends the scan of the batch: the item becomes the fallback if there
\* is none yet, and the scan goes on with the next item (skipping only null and
\* excluded items) until it returns a record, issues the next enrichment call,
\* or reaches the end of the batch and returns the fallback.
C15_FailureStep ==
    EnrichmentFailed =>
        /\ variant = "batch"
        /\ pc' \in {"detailFetching", "resolved"}
        /\ error' = "none"
        /\ attempt' = attempt
        /\ data' = data
        /\ fallback' = IF fallback = NullRec
                       THEN normalizeImageObj(data.items[idx]) ELSE fallback
        /\ fallback' # NullRec
        /\ idx' > idx
        /\ \A j \in (idx + 1)..(idx' - 1) :
               data.items[j] = NullItem \/ Excluded("batch", data.items[j], banList)
        /\ IF idx' > Len(data.items)
           THEN pc' = "resolved" /\ resultKind' = "fallback" /\ result' = fallback'
           ELSE /\ Acceptable("batch", data.items[idx'], banList)
                /\ IF Complete(data.items[idx'])
                   THEN pc' = "resolved" /\ resultKind' = "complete" /\ srcIdx' = idx'
                   ELSE pc' = "detailFetching"

C15_EnrichmentFailureNonFatal == [][C15_FailureStep]_vars

\* C15 witness: the enrichment of item 1 failed, item 1 is the fallback, and the
\* scan went on to the enrichment call of item 2.
C15_Witness ==
    /\ pc = "detailFetching"
    /\ idx = 2
    /\ fallback # NullRec
    /\ fallbackIdx = 1
    /\ banList # BanEmpty


\* C16: every network call that has not completed (response body included) is
\* still under its timeout, so that the timeout can abort it.
C16_PendingCallHasTimer == inFlight > 0 => timer

\* C17: at most one network call is outstanding; one is outstanding exactly
\* while fetchRandomDog awaits a response head or body; an enrichment call is
\* outstanding only after the primary call of the attempt delivered its batch.
C17_OneOutstandingCall ==
    /\ inFlight \in {0, 1}
    /\ inFlight = 1 <=> pc \in {"fetching", "body", "detailFetching", "detailBody"}
    /\ pc \in {"detailFetching", "detailBody"} =>
           primaryOutcome = "batch" /\ primaryCalls = attempt

\* C17 witness: the second enrichment call of the second attempt is the only
\* outstanding call.
C17_Witness ==
    /\ inFlight = 1
    /\ pc = "detailFetching"
    /\ idx = 2
    /\ fallbackIdx = 1
    /\ attempt = 2

\* C18: the attempt counter equals the number of primary calls issued.
C18_AttemptCountsPrimaryCalls == attempt = primaryCalls

\* C18 witness: one attempt, whose batch had an item with a failed enrichment
\* call and an excluded item, returned the fallback.
C18_Witness ==
    /\ pc = "resolved"
    /\ resultKind = "fallback"
    /\ fallbackIdx = 1
    /\ Len(data.items) = 2
    /\ Excluded("batch", data.items[2], banList)
    /\ attempt = 1
    /\ primaryCalls = 1


\* a JavaScript string
IsString(s) == s \in Seq(STRING)

\* rec has the fixed attribute keys, each mapped to a string
FixedShape(rec) ==
    /\ DOMAIN rec.attributes = Keys
    /\ \A key \in Keys : IsString(rec.attributes[key])

\* rec is what the lenient normalizer owes for the raw item imgObj
LenientRecordOf(rec, imgObj) ==
    /\ rec # NullRec
    /\ FixedShape(rec)
    /\ Len(imgObj.breeds) = 0 => \A key \in Keys : rec.attributes[key] = <<>>
    /\ rec.hasBreed = (Len(imgObj.breeds) > 0)

NonEmptyValueHit(rec) ==
    \/ \E key \in ScalarKeys : \E b \in BannedValues(key) :
           rec.attributes[key] # <<>> /\ Norm(rec.attributes[key]) = Norm(b)
    \/ NonEmptyTokenHit(rec)

\* C20: a record is excluded only on account of a key for which it has a value:
\* an empty value under a banned key never excludes it, whatever the ban list
\* holds (blank banned values included), for scalar keys and for temperament.
C20_EmptyValueNeverExcluded ==
    \A i \in 1..Len(data.items) :
        LET rec == Normalize(variant, data.items[i])
        IN  (rec # NullRec /\ Banned(variant, rec, banList)) => NonEmptyValueHit(rec)


\* C23: a backoff wait is performed only when another attempt follows it: an
\* invocation that waits has not yet used its last attempt.
C23_BackoffOnlyBeforeAnotherAttempt == pc = "backoff" => attempt < maxAttempts


\* the values the App's ban list holds under key
AppBannedValues(key) ==
    IF key \in DOMAIN appBanList
    THEN {appBanList[key][i] : i \in 1..Len(appBanList[key])}
    ELSE {}

\* the result card shows a value that the App's ban list bans
DogShowsBanned ==
    /\ dog # NullRec
    /\ \/ \E key \in ScalarKeys : \E b \in AppBannedValues(key) :
              dog.attributes[key] # <<>> /\ Norm(dog.attributes[key]) = Norm(b)
       \/ \E i \in 1..Len(split(dog.attributes.temperament)) :
              \E b \in AppBannedValues("temperament") :
                  /\ Norm(split(dog.attributes.temperament)[i]) # <<>>
                  /\ Norm(split(dog.attributes.temperament)[i]) = Norm(b)

\* C21: in every state of the App the result card shows no attribute value
\* that the current ban list bans.
C21_ShownResultNotBanned == ~DogShowsBanned


\* values handed to addBan and removeBan: mixed case, padded, blank, empty
BanValues == {<<"A", "b">>, <<" ", "a", "B">>, <<"F">>, <<"f">>, <<" ">>, <<>>}

\* bl holds under key a value equal to v ignoring case and surrounding whitespace
HoldsEqual(bl, key, v) ==
    \E i \in 1..Len(ArrOf(bl, key)) : Norm(ArrOf(bl, key)[i]) = Norm(v)

\* what C22 says of addBan and removeBan; adds: v is a value addBan must add
AddRemoveLaws(key, v, adds) ==
    LET added == addBan(appVariant, appBanList, key, v)
        removed == removeBan(appBanList, key, v)
    IN  /\ adds => HoldsEqual(added, key, v)
        /\ ~HoldsEqual(removed, key, v)
        /\ \A k \in Keys \ {key} : ArrOf(added, k) = ArrOf(appBanList, k)
        /\ \A k \in Keys \ {key} : ArrOf(removed, k) = ArrOf(appBanList, k)
        /\ ~HoldsEqual(appBanList, key, v) => removeBan(added, key, v) = appBanList

\* C22 as stated, for every ban list the App reaches (looked at when no fetch
\* is running: a ban list built during a fetch is still there when it ends):
\* after addBan(key, v) with a non-empty v the list of key holds
\* a value equal to v; after removeBan(key, v) it holds none; addBan then
\* removeBan on a ban list that did not hold v restores the ban list.
C22_AddRemoveNonEmpty ==
    ~loading => \A key \in Keys : \A v \in BanValues : AddRemoveLaws(key, v, v # <<>>)

\* C22 amended: the same, for a v that is not blank (non-empty after trimming).
C22_AddRemoveNonBlank ==
    ~loading =>
        \A key \in Keys : \A v \in BanValues : AddRemoveLaws(key, v, trim(v) # <<>>)

\* C22 witness: clicks built a ban list with two values under one key, so that
\* removing one keeps the key and adding an equal one changes nothing.
C22_Witness ==
    /\ appVariant = "history"
    /\ Len(ArrOf(appBanList, "temperament")) = 2
    /\ HoldsEqual(appBanList, "temperament", <<"f">>)

\* C24: no key of the ban list holds two values that are equal after trimming
\* and lower-casing, and no key is mapped to an empty list.
C24_NoDuplicatesNoEmptyLists ==
    \A key \in DOMAIN appBanList :
        /\ Len(appBanList[key]) > 0
        /\ \A i, j \in 1..Len(appBanList[key]) :
               Norm(appBanList[key][i]) = Norm(appBanList[key][j]) => i = j

\* C24 witness: two keys hold a value each, in the App that stores values as given.
C24_Witness ==
    /\ appVariant = "plain"
    /\ Len(ArrOf(appBanList, "breed")) = 1
    /\ Len(ArrOf(appBanList, "temperament")) = 1
    /\ dog # NullRec

\* C25: at most one fetchRandomDog invocation is in flight; loading is true
\* exactly while one is (from the click until handleFetch has finished), and the
\* button accepts a click exactly when loading is false.
C25_OneFetchAtATime ==
    /\ pending \in {0, 1}
    /\ loading <=> pending = 1
    /\ loading <=> pc # "idle"
    /\ ENABLED HandleFetch <=> ~loading

\* C25 witness: a fetch ended in a network error and loading is false again.
C25_Witness ==
    /\ ~loading
    /\ pending = 0
    /\ appError = ErrorText(NetworkMessage)
    /\ appBanList # BanEmpty

\* the step in which handleFetch finishes
Settles == loading /\ ~loading'

\* C26 (step): on success dog is the returned record, error is null and (with
\* history) the record is prepended; on a rejection dog is null, error is the
\* dedicated message exactly for the exhaustion error and the error's own
\* message otherwise, and the history is left alone; no other step changes it.
C26_SettleStep ==
    /\ (Settles /\ pc = "resolved") =>
           /\ dog' = result
           /\ dog' # NullRec
           /\ appError' = NullRec
           /\ IF appVariant = "history"
              THEN /\ Len(historyList') = IF Len(historyList) < HistoryCap
                                          THEN Len(historyList) + 1 ELSE HistoryCap
                   /\ historyList'[1] = result
                   /\ \A i \in 2..Len(historyList') : historyList'[i] = historyList[i - 1]
              ELSE historyList' = historyList
    /\ (Settles /\ pc # "resolved") =>
           /\ pc = "rejected"
           /\ dog' = NullRec
           /\ appError' # NullRec
           /\ error = "exhausted" <=> appError' = ErrorText(DedicatedMessage)
           /\ error # "exhausted" => appError' = ErrorText(MessageOf(error))
           /\ historyList' = historyList
    /\ ~Settles => historyList' = historyList

\* C26 (state): the history never exceeds its cap, and after a fetch at most
\* one of a failed fetch's error and a fetched record is on display unless a
\* history item was loaded.
C26_HistoryCapped ==
    /\ Len(historyList) <= HistoryCap
    /\ appVariant = "plain" => historyList = <<>> /\ (dog = NullRec \/ appError = NullRec)

\* C26: both.
C26_SettleOutcome == []C26_HistoryCapped /\ [][C26_SettleStep]_vars

\* C26 witness: after a success that filled the history, a fetch ended in the
\* exhaustion error: no dog, the dedicated message, the history kept.
C26_Witness ==
    /\ ~loading
    /\ dog = NullRec
    /\ appError = ErrorText(DedicatedMessage)
    /\ Len(historyList) = HistoryCap
    /\ appBanList # BanEmpty

====
